---- MODULE Spec2Model ----
(***************************************************************************)
(* A model of the donation leaderboard server (src/index.js): the Stripe   *)
(* webhook that writes the payments ledger, the checkout-session route,    *)
(* and the three read routes (payment, leaderboard, stats).  The requests  *)
(* are those that reach a handler: the rate limiters and the CORS          *)
(* middleware in front of the routes are not modelled.                     *)
(*                                                                         *)
(* JavaScript numbers are modelled as fixed-point integers with four       *)
(* decimal places (Scale units per 1.0): every quantity the server         *)
(* computes (cents, cents / 100, cents / 100 / 100, sums of those) is      *)
(* exact at that precision.  The string that toFixed(2) renders is         *)
(* modelled by its number of hundredths ("9.00" is 900), so that rendering *)
(* and parsing are conversions, not identities.                            *)
(***************************************************************************)
EXTENDS Integers, Sequences, FiniteSets, TLC

(***************************************************************************)
(* Bounds of the model.                                                    *)
(***************************************************************************)
\* how many identifiers uuidv4() hands out that the server keeps
MaxUuid == 2
\* how far the clock behind Date.now() advances
MaxNow == 2
\* how many records a ledger drawn for the read routes holds at most
MaxEntries == 3

\* webhook requests handled over a run of the step-by-step webhook
MaxHandlers == 2

\* stored deliveries over a run of the earlier server variant
MaxDeliveries == 3

(***************************************************************************)
(* JavaScript arithmetic on fixed-point numbers.                           *)
(***************************************************************************)
Scale == 100 * 100

\* the JavaScript number n (an integer literal)
Num(n) == n * Scale

\* the JavaScript number d.ffff (ffff in ten-thousandths)
Dec(d, f) == d * Scale + f

\* x / 100 (exact: every x the server divides has at least two more places)
Div100(x) == x \div 100

\* x * 100
Times100(x) == x * 100

\* Math.round(x), x >= 0: the nearest integer, halves up
MathRound(x) == ((x + (Scale \div 2)) \div Scale) * Scale

\* x.toFixed(2), x >= 0: the rendered string, as its number of hundredths
toFixed2(x) == (x + 50) \div 100

\* parseFloat of a string rendered by toFixed(2)
parseFloatFixed(s) == s * 100

(***************************************************************************)
(* Helper: assign tier based on total amount donated (in dollars).         *)
(***************************************************************************)
getTier_Exclusive(amount) ==
    IF amount > Num(200) THEN "Whale"
    ELSE IF amount > Num(50) THEN "Shark"
    ELSE IF amount > Num(1) THEN "Shrimp"
    ELSE "Unknown"

getTier(amount) ==
    IF amount >= Num(200) THEN "Whale"
    ELSE IF amount >= Num(50) THEN "Shark"
    ELSE IF amount >= Num(1) THEN "Shrimp"
    ELSE "Unknown"

(***************************************************************************)
(* State.                                                                  *)
(***************************************************************************)
VARIABLES
    payments,     \* db "payments": payment id -> PaymentEntry
    leaderboard,  \* db "leaderboard": the cached ranked sequence
    sessions,     \* the processor's checkout sessions: payment id -> session
    uuidCount,    \* identifiers handed out by uuidv4() and kept
    now,          \* the clock behind Date.now()
    req,          \* the request handled last
    res,          \* the response to it
    calls,        \* the collaborators called while handling it, in order
    delivered,    \* history: completed event -> how often it was stored
                  \* (1 for an event that carries a paymentId)
    redelivered,  \* history: an event that carries a paymentId was stored
                  \* more than once
    inflight      \* webhook handlers awaiting their ledger write, and those
                  \* that finished: handler -> the event and the entry built

vars == <<payments, leaderboard, sessions, uuidCount, now, req, res, calls, delivered,
          redelivered, inflight>>

Names == {"A", "B"}

Init ==
    /\ payments = <<>>
    /\ leaderboard = <<>>
    /\ sessions = <<>>
    /\ uuidCount = 0
    /\ now = 1
    /\ req = [route |-> "none"]
    /\ res = [status |-> 0]
    /\ calls = <<>>
    /\ delivered = <<>>
    /\ redelivered = FALSE
    /\ inflight = <<>>

(***************************************************************************)
(* The collaborators: uuidv4, the clock, the ledger store, the processor.  *)
(***************************************************************************)
\* uuidv4(): an identifier never handed out before.  Identifiers the server
\* generates and drops (a rejected checkout request) are not counted.
uuidv4 == uuidCount + 1

\* Date.now()
DateNow == now

\* db.ref("payments/<key>").set(value): overwrite at key, nothing else touched
DbSet_Replace(db, key, value) == [k \in {key} |-> value]

DbSet(db, key, value) ==
    [k \in DOMAIN db \cup {key} |-> IF k = key THEN value ELSE db[k]]

\* snapshot.val() of "payments": null when the namespace holds nothing
IsNull(data) == DOMAIN data = {}

\* the event the processor emits when the checkout session with payment id p
\* completes: amount_total is unit_amount x quantity 1, metadata as created
EventOf(p) ==
    [type |-> "checkout.session.completed",
     amount_total |-> sessions[p].unit_amount,
     metadata |-> sessions[p].metadata]

\* completed sessions that were not created by this server's checkout route
\* (no paymentId in the metadata, with or without a name), and an event of
\* another type
ExternalEvents ==
    {[type |-> "checkout.session.completed", amount_total |-> Num(900),
      metadata |-> <<>>],
     [type |-> "checkout.session.completed", amount_total |-> Num(900),
      metadata |-> [name |-> "A"]],
     [type |-> "payment_intent.succeeded", amount_total |-> Num(900),
      metadata |-> [name |-> "A"]]}

\* bodies only a sender without the signing secret would produce
ForgedEvents ==
    {[type |-> "checkout.session.completed", amount_total |-> Num(5000),
      metadata |-> [name |-> "B", paymentId |-> p]] : p \in 1..MaxUuid}

\* what the processor can deliver, validly signed
Deliverable == {EventOf(p) : p \in DOMAIN sessions} \cup ExternalEvents

(***************************************************************************)
(* POST /webhook                                                           *)
(***************************************************************************)
\* the history after one more stored delivery of the event
Stored(log, body) ==
    LET n == IF body \in DOMAIN log THEN log[body] ELSE 0
        m == IF "paymentId" \in DOMAIN body.metadata THEN 1 ELSE n + 1
    IN  [e \in DOMAIN log \cup {body} |-> IF e = body THEN m ELSE log[e]]

\* the event carries a paymentId and was stored before
StoredBefore(log, body) ==
    "paymentId" \in DOMAIN body.metadata /\ body \in DOMAIN log

\* stripe.webhooks.constructEvent: throws unless the signature verifies
constructEvent_AcceptAll(body, sigValid) == TRUE

constructEvent(body, sigValid) == sigValid

\* session.metadata?.name || "Anonymous"
NameOf_MissingOnly(metadata) ==
    IF "name" \in DOMAIN metadata THEN metadata.name ELSE "Anonymous"

NameOf(metadata) ==
    IF "name" \in DOMAIN metadata /\ metadata.name # ""
    THEN metadata.name ELSE "Anonymous"

\* session.metadata?.paymentId || uuidv4()
PaymentIdOf_AlwaysFresh(metadata) == uuidv4

PaymentIdOf_SameFallback(metadata) ==
    IF "paymentId" \in DOMAIN metadata THEN metadata.paymentId ELSE 0

PaymentIdOf(metadata) ==
    IF "paymentId" \in DOMAIN metadata THEN metadata.paymentId ELSE uuidv4

\* the entry the handler builds from the session
EntryOf(session) ==
    [id |-> PaymentIdOf(session.metadata),
     name |-> NameOf(session.metadata),
     total |-> Div100(session.amount_total),
     timestamp |-> DateNow]

\* the answer after the try/catch around the ledger write
WebhookAck_Propagate(dbOk) ==
    IF dbOk THEN [status |-> 200, body |-> [received |-> TRUE]]
    ELSE [status |-> 500, body |-> [error |-> "Firebase write error"]]

WebhookAck(dbOk) == [status |-> 200, body |-> [received |-> TRUE]]

Webhook(body, sigValid, dbOk) ==
    /\ req' = [route |-> "POST /webhook", body |-> body,
               sigValid |-> sigValid, dbOk |-> dbOk]
    /\ IF ~constructEvent(body, sigValid)
       THEN /\ res' = [status |-> 400, body |-> "Webhook Error"]
            /\ calls' = <<>>
            /\ UNCHANGED <<payments, uuidCount, delivered, redelivered>>
       ELSE IF body.type = "checkout.session.completed"
       THEN LET entry == EntryOf(body)
                fresh == entry.id = uuidv4
            IN  /\ fresh => uuidCount < MaxUuid
                /\ IF dbOk
                   THEN /\ payments' = DbSet(payments, entry.id, entry)
                        /\ uuidCount' = IF fresh THEN uuidCount + 1 ELSE uuidCount
                        /\ delivered' = Stored(delivered, body)
                        /\ redelivered' =
                             (redelivered \/ StoredBefore(delivered, body))
                   ELSE UNCHANGED <<payments, uuidCount, delivered, redelivered>>
                /\ calls' = <<"db.set payments">>
                /\ res' = WebhookAck(dbOk)
       ELSE /\ res' = [status |-> 200, body |-> [received |-> TRUE]]
            /\ calls' = <<>>
            /\ UNCHANGED <<payments, uuidCount, delivered, redelivered>>
    /\ UNCHANGED <<leaderboard, sessions, now, inflight>>

\* a delivery by the processor (the ledger write succeeding or not), or a
\* request by a sender without the secret
PostWebhook ==
    \/ \E body \in Deliverable, dbOk \in BOOLEAN : Webhook(body, TRUE, dbOk)
    \/ \E body \in ForgedEvents : Webhook(body, FALSE, TRUE)

(***************************************************************************)
(* POST /create-checkout-session                                           *)
(***************************************************************************)
\* the amount strings a request body carries ("" stands for a missing one)
AmountInputs == {"", "abc", "0.49", "0.499", "0.50", "25.50"}

\* parseFloat(amount): NaN, or the number the string denotes
parseFloat(amount) ==
    CASE amount = "0.49"  -> [nan |-> FALSE, v |-> Dec(0, 4900)]
      [] amount = "0.499" -> [nan |-> FALSE, v |-> Dec(0, 4990)]
      [] amount = "0.50"  -> [nan |-> FALSE, v |-> Dec(0, 5000)]
      [] amount = "9"     -> [nan |-> FALSE, v |-> Num(9)]
      [] amount = "10"    -> [nan |-> FALSE, v |-> Num(10)]
      [] amount = "25.50" -> [nan |-> FALSE, v |-> Dec(25, 5000)]
      [] OTHER            -> [nan |-> TRUE, v |-> 0]

\* Math.round(parseFloat(amount) * 100); NaN stays NaN
AmountInCents(amount) ==
    LET f == parseFloat(amount)
    IN  IF f.nan THEN f ELSE [nan |-> FALSE, v |-> MathRound(Times100(f.v))]

\* isNaN(amountInCents) || amountInCents < 50
AmountRejected(amountInCents) ==
    amountInCents.nan \/ amountInCents.v < Num(50)

\* what the siteverify call can come to: the fetch throws, or it answers
\* with success and possibly a score
VerifyOutcomes ==
    {[threw |-> TRUE],
     [threw |-> FALSE, success |-> FALSE],
     [threw |-> FALSE, success |-> TRUE],
     [threw |-> FALSE, success |-> TRUE, score |-> Dec(0, 3000)],
     [threw |-> FALSE, success |-> TRUE, score |-> Dec(0, 9000)]}

\* !data.success || (data.score !== undefined && data.score < 0.5)
VerifyFailed(data) ==
    \/ ~data.success
    \/ ("score" \in DOMAIN data /\ data.score < Dec(0, 5000))

CreateCheckoutSession(name, amount, token, verify, stripeOk) ==
    LET paymentId == uuidv4
        amountInCents == AmountInCents(amount)
    IN
    /\ req' = [route |-> "POST /create-checkout-session", name |-> name,
               amount |-> amount, token |-> token, verify |-> verify,
               stripeOk |-> stripeOk]
    /\ IF name = "" \/ amount = "" \/ token = ""
       THEN /\ res' = [status |-> 400,
                       body |-> [error |-> "Name, amount, and reCAPTCHA token are required"]]
            /\ calls' = <<>>
            /\ UNCHANGED <<sessions, uuidCount>>
       ELSE IF verify.threw
       THEN /\ res' = [status |-> 500,
                       body |-> [error |-> "Failed to verify reCAPTCHA"]]
            /\ calls' = <<"siteverify">>
            /\ UNCHANGED <<sessions, uuidCount>>
       ELSE IF VerifyFailed(verify)
       THEN /\ res' = [status |-> 403,
                       body |-> [error |-> "reCAPTCHA verification failed"]]
            /\ calls' = <<"siteverify">>
            /\ UNCHANGED <<sessions, uuidCount>>
       ELSE IF AmountRejected(amountInCents)
       THEN /\ res' = [status |-> 400,
                       body |-> [error |-> "Amount must be a valid number and at least $0.50"]]
            /\ calls' = <<"siteverify">>
            /\ UNCHANGED <<sessions, uuidCount>>
       ELSE IF stripeOk
       THEN /\ uuidCount < MaxUuid
            /\ sessions' = DbSet(sessions, paymentId,
                                 [id |-> paymentId,
                                  unit_amount |-> amountInCents.v,
                                  metadata |-> [name |-> name,
                                                paymentId |-> paymentId]])
            /\ uuidCount' = uuidCount + 1
            /\ res' = [status |-> 200, body |-> [id |-> paymentId]]
            /\ calls' = <<"siteverify", "stripe.checkout.sessions.create">>
       ELSE /\ res' = [status |-> 500,
                       body |-> [error |-> "Failed to create checkout session"]]
            /\ calls' = <<"siteverify", "stripe.checkout.sessions.create">>
            /\ UNCHANGED <<sessions, uuidCount>>
    /\ UNCHANGED <<payments, leaderboard, now, delivered,
                   redelivered, inflight>>

\* the checkout requests of the full server model: well-formed ones
PostCheckout ==
    \E name \in Names, amount \in {"9"}, stripeOk \in BOOLEAN :
        CreateCheckoutSession(name, amount, "tok",
                              [threw |-> FALSE, success |-> TRUE], stripeOk)

\* every checkout request
PostCheckoutAny ==
    \E name \in {"A", ""}, amount \in AmountInputs, token \in {"tok", ""},
       verify \in VerifyOutcomes, stripeOk \in BOOLEAN :
        CreateCheckoutSession(name, amount, token, verify, stripeOk)

(***************************************************************************)
(* GET /payments/:id                                                       *)
(***************************************************************************)
GetPayment(id, readOk) ==
    /\ req' = [route |-> "GET /payments/:id", id |-> id, readOk |-> readOk]
    /\ calls' = <<"db.get payments">>
    /\ res' = IF ~readOk
              THEN [status |-> 500, body |-> [error |-> "Internal server error"]]
              ELSE IF id \notin DOMAIN payments
              THEN [status |-> 404, body |-> [error |-> "Payment not found"]]
              ELSE [status |-> 200, body |-> payments[id]]
    /\ UNCHANGED <<payments, leaderboard, sessions, uuidCount, now, delivered,
                   redelivered, inflight>>

(***************************************************************************)
(* GET /leaderboard                                                        *)
(***************************************************************************)
\* the keys of a snapshot in the order "for (const key in data)" visits them
RECURSIVE KeysInOrder(_)
KeysInOrder(S) ==
    IF S = {} THEN <<>>
    ELSE LET m == CHOOSE x \in S : \A y \in S : x <= y
         IN  <<m>> \o KeysInOrder(S \ {m})

\* !entry.name, !entry.total: the field is missing, "" or 0
NoName(entry) == "name" \notin DOMAIN entry \/ entry.name = ""

NoTotal_MissingOnly(entry) == "total" \notin DOMAIN entry

NoTotal(entry) == "total" \notin DOMAIN entry \/ entry.total = 0

\* the properties "const aggregated = {}" inherits from Object.prototype:
\* aggregated[name] is a function for these before anything is stored
InheritedMethods ==
    {"constructor", "hasOwnProperty", "isPrototypeOf", "propertyIsEnumerable",
     "toLocaleString", "toString", "valueOf"}

\* the index of name among the own properties of aggregated, 0 if none
OwnIndex(agg, name) ==
    IF \E i \in 1..Len(agg) : agg[i].name = name
    THEN CHOOSE i \in 1..Len(agg) : agg[i].name = name
    ELSE 0

\* one turn of the aggregation loop.  aggregated is modelled by its own
\* properties in insertion order; a property is a number, or the string
\* that "+=" makes of an inherited function
AggregateEntry(agg, entry) ==
    IF NoName(entry) \/ NoTotal(entry) THEN agg
    ELSE IF entry.name = "__proto__" THEN agg
    ELSE LET i == OwnIndex(agg, entry.name)
         IN  IF i # 0
             THEN IF agg[i].isNumber
                  THEN [agg EXCEPT ![i].total = @ + entry.total]
                  ELSE agg
             ELSE IF entry.name \in InheritedMethods
             THEN Append(agg, [name |-> entry.name, total |-> 0,
                               isNumber |-> FALSE])
             ELSE Append(agg, [name |-> entry.name, total |-> entry.total,
                               isNumber |-> TRUE])

RECURSIVE AggregateFrom(_, _, _)
AggregateFrom(agg, data, keys) ==
    IF keys = <<>> THEN agg
    ELSE AggregateFrom(AggregateEntry(agg, data[Head(keys)]), data, Tail(keys))

\* Object.entries(aggregated) after the loop
Aggregate(data) == AggregateFrom(<<>>, data, KeysInOrder(DOMAIN data))

\* total.toFixed(2) throws a TypeError when total is a string
ToFixedThrows(agg) == \E i \in 1..Len(agg) : ~agg[i].isNumber

\* .map(([name, total]) => ({name, score: total.toFixed(2)}))
Scored(agg) ==
    [i \in 1..Len(agg) |-> [name |-> agg[i].name, score |-> toFixed2(agg[i].total)]]

\* the comparator of the sort: negative when a goes first
Compare_Ascending(a, b) == parseFloatFixed(a.score) - parseFloatFixed(b.score)

Compare(a, b) == parseFloatFixed(b.score) - parseFloatFixed(a.score)

\* e put into the sorted sequence s, after every element it does not precede
\* (Array.prototype.sort is stable)
InsertSorted(s, e) ==
    LET before == {i \in 1..Len(s) : Compare(e, s[i]) < 0}
        at == IF before = {} THEN Len(s) + 1
              ELSE CHOOSE i \in before : \A j \in before : i <= j
    IN  SubSeq(s, 1, at - 1) \o <<e>> \o SubSeq(s, at, Len(s))

RECURSIVE SortFrom(_, _)
SortFrom(sorted, rest) ==
    IF rest = <<>> THEN sorted
    ELSE SortFrom(InsertSorted(sorted, Head(rest)), Tail(rest))

Sorted(list) == SortFrom(<<>>, list)

\* rank: index + 1 (sequences here start at 1)
RankOf(index) == index

\* leaderboard.map((entry, index) => ({rank, ...entry, tier}))
Ranked(list) ==
    [i \in 1..Len(list) |->
        [rank |-> RankOf(i), name |-> list[i].name, score |-> list[i].score,
         tier |-> getTier(parseFloatFixed(list[i].score))]]

\* db.ref("leaderboard").set(ranked): the stored value is replaced
SetLeaderboard_Merge(cache, ranked) == cache \o ranked

SetLeaderboard(cache, ranked) == ranked

GetLeaderboard(readOk, writeOk) ==
    LET data == payments
        aggregated == Aggregate(data)
        ranked == Ranked(Sorted(Scored(aggregated)))
        failed == [status |-> 500, body |-> [error |-> "Failed to fetch leaderboard"]]
    IN
    /\ req' = [route |-> "GET /leaderboard", readOk |-> readOk,
               writeOk |-> writeOk]
    /\ IF ~readOk
       THEN /\ res' = failed
            /\ calls' = <<"db.get payments">>
            /\ UNCHANGED leaderboard
       ELSE IF IsNull(data)
       THEN /\ res' = [status |-> 200, body |-> <<>>]
            /\ calls' = <<"db.get payments">>
            /\ UNCHANGED leaderboard
       ELSE IF ToFixedThrows(aggregated)
       THEN /\ res' = failed
            /\ calls' = <<"db.get payments">>
            /\ UNCHANGED leaderboard
       ELSE IF ~writeOk
       THEN /\ res' = failed
            /\ calls' = <<"db.get payments", "db.set leaderboard">>
            /\ UNCHANGED leaderboard
       ELSE /\ res' = [status |-> 200, body |-> ranked]
            /\ calls' = <<"db.get payments", "db.set leaderboard">>
            /\ leaderboard' = SetLeaderboard(leaderboard, ranked)
    /\ UNCHANGED <<payments, sessions, uuidCount, now, delivered,
                   redelivered, inflight>>

(***************************************************************************)
(* GET /stats                                                              *)
(***************************************************************************)
\* the tier the stats loop gives an entry
StatsTier(entry) == getTier(Div100(entry.total))

\* how many entries the loop counts under a tier
TierCount(data, tier) ==
    Cardinality({k \in DOMAIN data :
                    ~NoTotal(data[k]) /\ StatsTier(data[k]) = tier})

GetStats(readOk) ==
    LET data == payments
    IN
    /\ req' = [route |-> "GET /stats", readOk |-> readOk]
    /\ calls' = <<"db.get payments">>
    /\ res' = IF ~readOk
              THEN [status |-> 500, body |-> [error |-> "Failed to fetch stats"]]
              ELSE IF IsNull(data)
              THEN [status |-> 200,
                    body |-> [shrimpCount |-> 0, sharkCount |-> 0,
                              whaleCount |-> 0, totalMatches |-> 0]]
              ELSE [status |-> 200,
                    body |-> [shrimpCount |-> TierCount(data, "Shrimp"),
                              sharkCount |-> TierCount(data, "Shark"),
                              whaleCount |-> TierCount(data, "Whale"),
                              totalMatches |-> Cardinality(DOMAIN data)]]
    /\ UNCHANGED <<payments, leaderboard, sessions, uuidCount, now, delivered,
                   redelivered, inflight>>

GetPaymentAny == \E id \in 1..MaxUuid, readOk \in BOOLEAN : GetPayment(id, readOk)

GetLeaderboardAny ==
    \E readOk \in BOOLEAN, writeOk \in BOOLEAN : GetLeaderboard(readOk, writeOk)

GetStatsAny == \E readOk \in BOOLEAN : GetStats(readOk)

\* time passes between requests
Tick ==
    /\ now < MaxNow
    /\ now' = now + 1
    /\ UNCHANGED <<payments, leaderboard, sessions, uuidCount, req, res, calls,
                   delivered, redelivered, inflight>>

Next ==
    \/ Tick
    \/ PostWebhook
    \/ PostCheckout
    \/ GetPaymentAny
    \/ GetLeaderboardAny
    \/ GetStatsAny

Spec == Init /\ [][Next]_vars

\* the checkout route alone, over every kind of request body
NextCheckout == PostCheckoutAny

SpecCheckout == Init /\ [][NextCheckout]_vars

(***************************************************************************)
(* The webhook over more kinds of event: sessions created by the checkout  *)
(* route, and completed sessions created elsewhere with an empty name,     *)
(* with no metadata, with an amount that is no whole number of dollars.    *)
(***************************************************************************)
OtherEvents ==
    {[type |-> "checkout.session.completed", amount_total |-> Num(2550),
      metadata |-> [name |-> ""]],
     [type |-> "checkout.session.completed", amount_total |-> Num(50),
      metadata |-> [name |-> "B"]]}

PostWebhookAny ==
    \/ \E body \in Deliverable \cup OtherEvents, dbOk \in BOOLEAN :
          Webhook(body, TRUE, dbOk)
    \/ \E body \in ForgedEvents : Webhook(body, FALSE, TRUE)

NextEvents ==
    \/ Tick
    \/ PostCheckout
    \/ PostWebhookAny

SpecEvents == Init /\ [][NextEvents]_vars

(***************************************************************************)
(* POST /webhook step by step: the handler builds its entry, starts the    *)
(* ledger write and awaits it (index.js:120); other requests are served    *)
(* while it waits, so the writes of two handlers land in either order.     *)
(***************************************************************************)
\* a validly signed completed event arrives: the handler runs up to the await
WebhookReceive(body) ==
    LET entry == EntryOf(body)
        fresh == entry.id = uuidv4
        waiting == {g \in 1..Len(inflight) : inflight[g].pc = "set"}
    IN
    /\ Len(inflight) < MaxHandlers
    /\ constructEvent(body, TRUE)
    /\ body.type = "checkout.session.completed"
    /\ fresh => uuidCount < MaxUuid
    /\ uuidCount' = IF fresh THEN uuidCount + 1 ELSE uuidCount
    /\ inflight' = Append(inflight, [body |-> body, entry |-> entry,
                                     pc |-> "set", seen |-> waiting])
    /\ UNCHANGED <<payments, leaderboard, sessions, now, req, res, calls,
                   delivered, redelivered>>

\* the write of handler h lands at the store, or fails; the handler resumes
\* and answers
WebhookSetLands(h, dbOk) ==
    LET body == inflight[h].body
        entry == inflight[h].entry
    IN
    /\ inflight[h].pc = "set"
    /\ IF dbOk
       THEN /\ payments' = DbSet(payments, entry.id, entry)
            /\ delivered' = Stored(delivered, body)
            /\ redelivered' = (redelivered \/ StoredBefore(delivered, body))
       ELSE UNCHANGED <<payments, delivered, redelivered>>
    /\ inflight' = [inflight EXCEPT ![h].pc = IF dbOk THEN "stored" ELSE "failed"]
    /\ req' = [route |-> "POST /webhook", body |-> body, sigValid |-> TRUE,
               dbOk |-> dbOk]
    /\ calls' = <<"db.set payments">>
    /\ res' = WebhookAck(dbOk)
    /\ UNCHANGED <<leaderboard, sessions, uuidCount, now>>

WebhookReceiveAny == \E body \in Deliverable : WebhookReceive(body)

WebhookSetLandsAny ==
    \E h \in 1..Len(inflight), dbOk \in BOOLEAN : WebhookSetLands(h, dbOk)

NextConcurrent ==
    \/ Tick
    \/ PostCheckout
    \/ WebhookReceiveAny
    \/ WebhookSetLandsAny

SpecConcurrent == Init /\ [][NextConcurrent]_vars

(***************************************************************************)
(* The earlier server variant (src/unnamed/part_000): the webhook stores   *)
(* {name, total} under payments/<name>, total in cents; GET /leaderboard   *)
(* sorts the stored records.  payments is keyed by donor name here.        *)
(***************************************************************************)
\* completed sessions as the processor reports them: a donor name or none,
\* amount_total in cents; and an event of another type
EarlierEvents ==
    {[type |-> "checkout.session.completed", amount_total |-> Num(c),
      metadata |-> md] :
        c \in {900, 2550}, md \in {<<>>, [name |-> "A"], [name |-> "B"]}}
    \cup {[type |-> "payment_intent.succeeded", amount_total |-> Num(900),
           metadata |-> [name |-> "A"]]}

\* the number of stored deliveries in the history
RECURSIVE Deliveries(_)
Deliveries(log) ==
    IF DOMAIN log = {} THEN 0
    ELSE LET e == CHOOSE x \in DOMAIN log : TRUE
         IN  log[e] + Deliveries([x \in DOMAIN log \ {e} |-> log[x]])

\* app.post("/webhook") of the earlier variant
EarlierWebhook(body, sigValid, dbOk) ==
    /\ req' = [route |-> "POST /webhook", body |-> body,
               sigValid |-> sigValid, dbOk |-> dbOk]
    /\ IF ~constructEvent(body, sigValid)
       THEN /\ res' = [status |-> 400, body |-> "Webhook Error"]
            /\ calls' = <<>>
            /\ UNCHANGED <<payments, delivered>>
       ELSE IF body.type = "checkout.session.completed"
       THEN LET name == NameOf(body.metadata)
                amount == body.amount_total
            IN  /\ IF dbOk
                   THEN /\ Deliveries(delivered) < MaxDeliveries
                        /\ payments' = DbSet(payments, name,
                                             [name |-> name, total |-> amount])
                        /\ delivered' = Stored(delivered, body)
                   ELSE UNCHANGED <<payments, delivered>>
                /\ calls' = <<"db.set payments">>
                /\ res' = [status |-> 200, body |-> [received |-> TRUE]]
       ELSE /\ res' = [status |-> 200, body |-> [received |-> TRUE]]
            /\ calls' = <<>>
            /\ UNCHANGED <<payments, delivered>>
    /\ UNCHANGED <<leaderboard, sessions, uuidCount, now, redelivered, inflight>>

\* the keys of payments/ in the order the store returns them
EarlierKeyOrder == <<"A", "Anonymous", "B">>

\* Object.values(data)
EarlierValues(data) ==
    LET present(i) == EarlierKeyOrder[i] \in DOMAIN data
        F[i \in 0..Len(EarlierKeyOrder)] ==
            IF i = 0 THEN <<>>
            ELSE IF present(i) THEN Append(F[i - 1], data[EarlierKeyOrder[i]])
            ELSE F[i - 1]
    IN  F[Len(EarlierKeyOrder)]

\* (a, b) => b.total - a.total
EarlierCompare(a, b) == b.total - a.total

EarlierInsertSorted(s, e) ==
    LET before == {i \in 1..Len(s) : EarlierCompare(e, s[i]) < 0}
        at == IF before = {} THEN Len(s) + 1
              ELSE CHOOSE i \in before : \A j \in before : i <= j
    IN  SubSeq(s, 1, at - 1) \o <<e>> \o SubSeq(s, at, Len(s))

RECURSIVE EarlierSortFrom(_, _)
EarlierSortFrom(sorted, rest) ==
    IF rest = <<>> THEN sorted
    ELSE EarlierSortFrom(EarlierInsertSorted(sorted, Head(rest)), Tail(rest))

\* .map(entry => ({name: entry.name, score: (entry.total / 100).toFixed(2)}))
EarlierScored(list) ==
    [i \in 1..Len(list) |->
        [name |-> list[i].name, score |-> toFixed2(Div100(list[i].total))]]

\* app.get("/leaderboard") of the earlier variant
EarlierGetLeaderboard(readOk) ==
    LET data == payments
    IN
    /\ req' = [route |-> "GET /leaderboard", readOk |-> readOk]
    /\ calls' = <<"db.get payments">>
    /\ res' = IF ~readOk
              THEN [status |-> 500, body |-> [error |-> "Failed to fetch leaderboard"]]
              ELSE IF IsNull(data)
              THEN [status |-> 200, body |-> <<>>]
              ELSE [status |-> 200,
                    body |-> EarlierScored(EarlierSortFrom(<<>>, EarlierValues(data)))]
    /\ UNCHANGED <<payments, leaderboard, sessions, uuidCount, now, delivered,
                   redelivered, inflight>>

EarlierWebhookAny ==
    \E body \in EarlierEvents, sigValid \in BOOLEAN, dbOk \in BOOLEAN :
        EarlierWebhook(body, sigValid, dbOk)

EarlierGetLeaderboardAny == \E readOk \in BOOLEAN : EarlierGetLeaderboard(readOk)

NextEarlier == EarlierWebhookAny \/ EarlierGetLeaderboardAny

SpecEarlier == Init /\ [][NextEarlier]_vars

(***************************************************************************)
(* The read routes over every ledger the webhook can have written: the     *)
(* ledger is drawn at the start, then read.                                *)
(***************************************************************************)
\* donor names as they arrive in session metadata, one of them the name of
\* a method every JavaScript object inherits
BoardNames == {"A", "B", "constructor"}

\* amount_total of the stored payments, in cents
BoardCents == {0, 99, 100, 900, 1000, 4900, 19900}

\* the ledger the webhook leaves after storing, under the keys 1..n, sessions
\* with the names and amounts f gives
LedgerOf(n, f) ==
    [k \in 1..n |->
        [id |-> k, name |-> f[k][1], total |-> Div100(Num(f[k][2])),
         timestamp |-> 1]]

InitBoard ==
    /\ \E n \in 0..MaxEntries :
         \E f \in [1..n -> BoardNames \X BoardCents] :
            payments = LedgerOf(n, f)
    /\ leaderboard = <<>>
    /\ sessions = <<>>
    /\ uuidCount = Len(payments)
    /\ now = 1
    /\ req = [route |-> "none"]
    /\ res = [status |-> 0]
    /\ calls = <<>>
    /\ delivered = <<>>
    /\ redelivered = FALSE
    /\ inflight = <<>>

NextBoard == GetLeaderboardAny \/ GetStatsAny

SpecBoard == InitBoard /\ [][NextBoard]_vars

(***************************************************************************)
(* GET /leaderboard over ledgers that also hold records the webhook did    *)
(* not write: records without a name or without a total.                   *)
(***************************************************************************)
\* records found under payments/: three valid ones, and five that the
\* aggregation loop skips (index.js:226)
LedgerRecords ==
    { [name |-> "A", total |-> Num(9), timestamp |-> 1],
      [name |-> "A", total |-> Num(10), timestamp |-> 1],
      [name |-> "B", total |-> Num(9), timestamp |-> 1],
      [name |-> "A", timestamp |-> 1],
      [total |-> Num(9), timestamp |-> 1],
      [name |-> "", total |-> Num(9), timestamp |-> 1],
      [name |-> "B", total |-> 0, timestamp |-> 1],
      [name |-> "constructor", timestamp |-> 1] }

InitRecords ==
    /\ \E n \in 0..MaxEntries : payments \in [1..n -> LedgerRecords]
    /\ leaderboard = <<>>
    /\ sessions = <<>>
    /\ uuidCount = Len(payments)
    /\ now = 1
    /\ req = [route |-> "none"]
    /\ res = [status |-> 0]
    /\ calls = <<>>
    /\ delivered = <<>>
    /\ redelivered = FALSE
    /\ inflight = <<>>

NextRecords == GetLeaderboardAny

SpecRecords == InitRecords /\ [][NextRecords]_vars

(***************************************************************************)
(* Properties.                                                             *)
(***************************************************************************)
\* the request handled last is a validly signed checkout.session.completed
\* delivery
IsCompletedDelivery(r) ==
    /\ r.route = "POST /webhook"
    /\ r.sigValid
    /\ r.body.type = "checkout.session.completed"

CarriesPaymentId(body) == "paymentId" \in DOMAIN body.metadata

\* the sum of amount_total over the events of the finite set S
RECURSIVE SumAmounts(_)
SumAmounts(S) ==
    IF S = {} THEN 0
    ELSE LET e == CHOOSE x \in S : TRUE
         IN  e.amount_total + SumAmounts(S \ {e})

\* C1: delivering a checkout.session.completed event that carries
\* metadata.paymentId again, after it has been stored once, leaves the
\* payments ledger as it was: the same keys and, under that id, the same
\* record (id, name, total, timestamp).
C1_RedeliveryLeavesLedger ==
    [][ ( /\ IsCompletedDelivery(req')
          /\ CarriesPaymentId(req'.body)
          /\ req'.body.metadata.paymentId \in DOMAIN payments )
        => payments' = payments ]_vars

\* C2: when every stored delivery carried metadata.paymentId, the ledger
\* holds exactly one record per distinct paymentId delivered, each under the
\* key equal to its id field, and every score GET /leaderboard returns is
\* the sum of the amounts of that donor's distinct payments, however often
\* each was delivered.
C2_OneRecordPerPaymentId ==
    (\A e \in DOMAIN delivered : CarriesPaymentId(e)) =>
        /\ DOMAIN payments = {e.metadata.paymentId : e \in DOMAIN delivered}
        /\ \A k \in DOMAIN payments : payments[k].id = k
        /\ (req.route = "GET /leaderboard" /\ res.status = 200) =>
              \A i \in 1..Len(res.body) :
                 LET mine == {e \in DOMAIN delivered :
                                 e.metadata.name = res.body[i].name}
                 IN  res.body[i].score * Scale = SumAmounts(mine)

\* C2 witness: a donor with two distinct payments, one of them delivered more
\* than once, and a leaderboard that reports the donor
C2_Witness ==
    /\ req.route = "GET /leaderboard"
    /\ res.status = 200
    /\ Len(res.body) = 1
    /\ Cardinality(DOMAIN delivered) = 2
    /\ \A e \in DOMAIN delivered : CarriesPaymentId(e)
    /\ redelivered

\* C3: a POST /webhook request whose signature verification fails leaves the
\* payments ledger unchanged, whatever its body claims, and is answered 400.
C3_BadSignatureNeverWrites ==
    [][ (req'.route = "POST /webhook" /\ ~req'.sigValid)
        => (payments' = payments /\ res'.status = 400) ]_vars

\* C3 witness: a forged completed event naming a stored payment id with
\* another amount was rejected
C3_Witness ==
    /\ req.route = "POST /webhook"
    /\ ~req.sigValid
    /\ req.body.type = "checkout.session.completed"
    /\ CarriesPaymentId(req.body)
    /\ req.body.metadata.paymentId \in DOMAIN payments
    /\ payments[req.body.metadata.paymentId].total # Div100(req.body.amount_total)
    /\ res.status = 400

\* the entries of a ledger that have a name and a non-zero total
ValidKeys(data) == {k \in DOMAIN data : ~NoName(data[k]) /\ ~NoTotal(data[k])}

\* the sum of total over the entries of data under the keys K
RECURSIVE SumTotals(_, _)
SumTotals(data, K) ==
    IF K = {} THEN 0
    ELSE LET k == CHOOSE x \in K : TRUE
         IN  data[k].total + SumTotals(data, K \ {k})

\* GET /leaderboard was handled last, with the store answering
LeaderboardServed ==
    req.route = "GET /leaderboard" /\ req.readOk /\ req.writeOk

\* GET /leaderboard was handled last and returned a sequence
LeaderboardReturned == req.route = "GET /leaderboard" /\ res.status = 200

\* C4: for every ledger content, GET /leaderboard returns exactly one entry
\* per donor name that has a valid entry, with score the sum of the totals of
\* all entries of that name; no name twice, no valid total lost.
C4_OneEntryPerDonor ==
    LeaderboardServed =>
        LET valid == ValidKeys(payments)
            donors == {payments[k].name : k \in valid}
        IN  /\ res.status = 200
            /\ Len(res.body) = Cardinality(donors)
            /\ \A n \in donors :
                  \E i \in 1..Len(res.body) :
                     /\ res.body[i].name = n
                     /\ parseFloatFixed(res.body[i].score) =
                           SumTotals(payments,
                                     {k \in valid : payments[k].name = n})

\* C5: the sequence GET /leaderboard returns is in descending order of
\* numeric score, and the rank fields are 1, 2, ..., k in sequence order,
\* ties included.
C5_SortedAndRanked ==
    LeaderboardReturned =>
        /\ \A i, j \in 1..Len(res.body) :
              i < j => res.body[i].score >= res.body[j].score
        /\ \A i \in 1..Len(res.body) : res.body[i].rank = i

\* C5 witness: the donor of 9.00 comes first in the ledger and the donor of
\* 10.00 is returned above it
C5_Witness ==
    /\ LeaderboardReturned
    /\ Len(res.body) = 2
    /\ res.body[1].score = 1000
    /\ res.body[2].score = 900
    /\ payments[1].name = res.body[2].name

\* C6: once a PaymentEntry is stored under payments/<id>, no later request
\* changes any of its fields and none removes it.
C6_EntriesImmutable ==
    [][ \A k \in DOMAIN payments :
           k \in DOMAIN payments' /\ payments'[k] = payments[k] ]_vars

\* C7: when the ledger write fails for a validly signed
\* checkout.session.completed event, the webhook still answers 200 with
\* {received: true}, the ledger is as before the delivery, and the write is
\* attempted once.
C7_WriteFailureSwallowed ==
    [][ (IsCompletedDelivery(req') /\ ~req'.dbOk)
        => /\ res'.status = 200
           /\ res'.body = [received |-> TRUE]
           /\ payments' = payments
           /\ calls' = <<"db.set payments">> ]_vars

\* C7 witness: a delivery was acknowledged and its payment is not in the
\* ledger
C7_Witness ==
    /\ IsCompletedDelivery(req)
    /\ ~req.dbOk
    /\ CarriesPaymentId(req.body)
    /\ req.body.metadata.paymentId \notin DOMAIN payments
    /\ res.status = 200

\* the tier of a score rendered with two decimals, by the documented
\* thresholds (score in hundredths)
TierOfScore(score) ==
    IF score >= 20000 THEN "Whale"
    ELSE IF score >= 5000 THEN "Shark"
    ELSE IF score >= 100 THEN "Shrimp"
    ELSE "Unknown"

\* C8: the classifier has inclusive lower thresholds (0.99 Unknown, 1.00
\* Shrimp, 49.99 Shrimp, 50.00 Shark, 199.99 Shark, 200.00 Whale), and the
\* tier of every entry GET /leaderboard returns is the classifier's label
\* for the entry's aggregate score.
C8_TierBoundaries ==
    /\ getTier(Dec(0, 9900)) = "Unknown"
    /\ getTier(Num(1)) = "Shrimp"
    /\ getTier(Dec(49, 9900)) = "Shrimp"
    /\ getTier(Num(50)) = "Shark"
    /\ getTier(Dec(199, 9900)) = "Shark"
    /\ getTier(Num(200)) = "Whale"
    /\ LeaderboardReturned =>
          \A i \in 1..Len(res.body) :
             res.body[i].tier = TierOfScore(res.body[i].score)

\* C8 witness: an aggregate of exactly 50.00 (49.00 + 1.00) returned as a
\* Shark beside an aggregate of 0.99 returned as Unknown
C8_Witness ==
    /\ LeaderboardReturned
    /\ Cardinality(DOMAIN payments) = 3
    /\ \E i, j \in 1..Len(res.body) :
          /\ res.body[i].score = 5000 /\ res.body[i].tier = "Shark"
          /\ res.body[j].score = 99 /\ res.body[j].tier = "Unknown"

\* the tier of a stored total (dollars) by the documented thresholds
TierOfTotal(total) ==
    IF total >= Num(200) THEN "Whale"
    ELSE IF total >= Num(50) THEN "Shark"
    ELSE IF total >= Num(1) THEN "Shrimp"
    ELSE "Unknown"

\* how many ledger entries have a stored total of the given tier
EntriesOfTier(tier) ==
    Cardinality({k \in DOMAIN payments : TierOfTotal(payments[k].total) = tier})

\* C9: for every ledger the webhook wrote, GET /stats returns the numbers of
\* entries whose stored total (in dollars) is of tier Whale, Shark and Shrimp,
\* and the number of entries.
C9_StatsCountsTiers ==
    (req.route = "GET /stats" /\ req.readOk) =>
        /\ res.status = 200
        /\ res.body.whaleCount = EntriesOfTier("Whale")
        /\ res.body.sharkCount = EntriesOfTier("Shark")
        /\ res.body.shrimpCount = EntriesOfTier("Shrimp")
        /\ res.body.totalMatches = Cardinality(DOMAIN payments)

\* the collaborators called while handling the last request
Called == {calls[i] : i \in 1..Len(calls)}

\* C10: in POST /create-checkout-session, for a request with all fields
\* whose token passes bot verification, a numeric amount below 0.50 is
\* rejected with 400 and no checkout session is created, and a numeric
\* amount of at least 0.50 creates (the processor permitting) a session
\* with unit_amount = amount x 100.
C10_AmountConversion ==
    ( /\ req.route = "POST /create-checkout-session"
      /\ req.name # "" /\ req.amount # "" /\ req.token # ""
      /\ ~req.verify.threw
      /\ ~VerifyFailed(req.verify)
      /\ ~parseFloat(req.amount).nan )
    => IF parseFloat(req.amount).v < Dec(0, 5000)
       THEN /\ res.status = 400
            /\ "stripe.checkout.sessions.create" \notin Called
       ELSE req.stripeOk =>
               /\ res.status = 200
               /\ sessions[res.body.id].unit_amount =
                     Times100(parseFloat(req.amount).v)

\* the checkout request has a validation error, as the handler defines them:
\* a field is missing, or the amount is no number or rounds below 50 cents
ValidationError(r) ==
    \/ r.name = "" \/ r.amount = "" \/ r.token = ""
    \/ AmountRejected(AmountInCents(r.amount))

\* C11: a POST /create-checkout-session request with a validation error is
\* answered 400 and has no side effect: no collaborator is called (neither
\* the bot-verification service nor the payment processor), no checkout
\* session is created and the ledger is unchanged, whatever the verification
\* service would answer.
C11_ValidationErrorNoSideEffect ==
    [][ (req'.route = "POST /create-checkout-session" /\ ValidationError(req'))
        => /\ res'.status = 400
           /\ calls' = <<>>
           /\ sessions' = sessions
           /\ payments' = payments ]_vars

\* a ledger record with a non-empty name and a non-zero total
WellFormed(entry) ==
    /\ "name" \in DOMAIN entry
    /\ entry.name # ""
    /\ "total" \in DOMAIN entry
    /\ entry.total # 0

\* C12: GET /leaderboard skips a ledger record that lacks a name or a total
\* (or whose total is zero) without an error and without changing the scores
\* of the other records: the answer is 200 with one entry per donor of a
\* well-formed record, scored by the well-formed records alone; a ledger
\* with no well-formed record, the empty ledger included, yields the empty
\* sequence with status 200.
C12_MalformedEntriesSkipped ==
    LeaderboardServed =>
        LET good == {k \in DOMAIN payments : WellFormed(payments[k])}
            donors == {payments[k].name : k \in good}
        IN  /\ good = {} => (res.status = 200 /\ res.body = <<>>)
            /\ donors \subseteq Names =>
                  /\ res.status = 200
                  /\ Len(res.body) = Cardinality(donors)
                  /\ \A n \in donors :
                        \E i \in 1..Len(res.body) :
                           /\ res.body[i].name = n
                           /\ parseFloatFixed(res.body[i].score) =
                                 SumTotals(payments,
                                           {k \in good : payments[k].name = n})

\* C12 witness: a ledger with a record without total, a record without name
\* and two well-formed records of one donor, answered with that donor alone
C12_Witness ==
    /\ LeaderboardServed
    /\ \E k \in DOMAIN payments : "total" \notin DOMAIN payments[k]
    /\ \E k \in DOMAIN payments : "name" \notin DOMAIN payments[k]
    /\ res.status = 200
    /\ Len(res.body) = 1
    /\ res.body[1].name = "A"
    /\ leaderboard = res.body

\* C13: GET /payments/:id answers 404 as long as no delivery has been stored
\* under the id, and answers 200 with the stored entry on every request after
\* one has; the id a checkout session carries in its metadata is the key of
\* the entry the session's webhook stores: the entry has that id, the
\* session's donor name and the session's amount in major units.
C13_PaymentLookup ==
    /\ \A p \in DOMAIN sessions : sessions[p].metadata.paymentId = p
    /\ (req.route = "GET /payments/:id" /\ req.readOk) =>
          LET id == req.id
          IN  /\ id \notin DOMAIN payments => res.status = 404
              /\ id \in DOMAIN payments =>
                    (res.status = 200 /\ res.body = payments[id])
              /\ id \in DOMAIN sessions =>
                    IF EventOf(id) \notin DOMAIN delivered
                    THEN res.status = 404
                    ELSE /\ res.status = 200
                         /\ res.body.id = id
                         /\ res.body.name = sessions[id].metadata.name
                         /\ res.body.total = Div100(sessions[id].unit_amount)

\* C13 witness: a payment created by the checkout route, stored by its webhook
\* and delivered again, is looked up by the id of the session's metadata
C13_Witness ==
    /\ req.route = "GET /payments/:id"
    /\ req.readOk
    /\ req.id \in DOMAIN sessions
    /\ EventOf(req.id) \in DOMAIN delivered
    /\ redelivered
    /\ res.status = 200
    /\ res.body.id = sessions[req.id].metadata.paymentId

\* C14: handling a validly signed checkout.session.completed event whose
\* ledger write succeeds leaves an entry whose total is the event's minor-unit
\* amount divided by 100 and whose name is the metadata name, "Anonymous"
\* when that is missing or empty; the entry's id and key are
\* metadata.paymentId when the event carries one, and a newly generated id,
\* under which nothing was stored, only when it carries none.
C14_EntryFromEvent ==
    [][ (IsCompletedDelivery(req') /\ req'.dbOk /\ now' = now) =>
          LET md == req'.body.metadata
              name == IF "name" \in DOMAIN md /\ md.name # ""
                      THEN md.name ELSE "Anonymous"
              written == {k \in DOMAIN payments' :
                             /\ payments'[k].id = k
                             /\ payments'[k].name = name
                             /\ payments'[k].total * 100 = req'.body.amount_total
                             /\ payments'[k].timestamp = now}
          IN  IF "paymentId" \in DOMAIN md
              THEN /\ md.paymentId \in written
                   /\ DOMAIN payments' = DOMAIN payments \cup {md.paymentId}
              ELSE \E k \in written :
                      /\ k \notin DOMAIN payments
                      /\ DOMAIN payments' = DOMAIN payments \cup {k} ]_vars

\* C14 witness: an event with an empty metadata name and no paymentId, of
\* 25.50, was stored as Anonymous under a generated id
C14_Witness ==
    /\ IsCompletedDelivery(req)
    /\ req.dbOk
    /\ "name" \in DOMAIN req.body.metadata
    /\ req.body.metadata.name = ""
    /\ ~CarriesPaymentId(req.body)
    /\ \E k \in DOMAIN payments :
          /\ payments[k].name = "Anonymous"
          /\ payments[k].total = Dec(25, 5000)

C16_ConcurrentDeliveriesAgree ==
    \A g, h \in 1..Len(inflight) :
        ( /\ g \in inflight[h].seen
          /\ inflight[g].body = inflight[h].body
          /\ CarriesPaymentId(inflight[h].body) )
        => /\ inflight[g].entry = inflight[h].entry
           /\ (inflight[g].pc = "stored" /\ inflight[h].pc = "stored") =>
                 LET id == inflight[h].body.metadata.paymentId
                 IN  /\ payments[id] = inflight[g].entry
                     /\ payments[id] = inflight[h].entry

\* the sum over the events of S of amount_total times the number of stored
\* deliveries
RECURSIVE SumDelivered(_)
SumDelivered(S) ==
    IF S = {} THEN 0
    ELSE LET e == CHOOSE x \in S : TRUE
         IN  delivered[e] * e.amount_total + SumDelivered(S \ {e})

\* the donor of an event: the metadata name, "Anonymous" without one
DonorOf(e) ==
    IF "name" \in DOMAIN e.metadata /\ e.metadata.name # ""
    THEN e.metadata.name ELSE "Anonymous"

\* the ledger records a stored delivery of the event e without paymentId left
FallbackRecords(e) ==
    {k \in DOMAIN payments \ DOMAIN sessions :
        /\ payments[k].id = k
        /\ payments[k].name = DonorOf(e)
        /\ payments[k].total * 100 = e.amount_total}

\* C17: an event without metadata.paymentId that was stored n times has left
\* n ledger records under n different generated ids, and a returned
\* leaderboard counts its amount n times in the donor's score (an event with
\* paymentId counts once).
C17_FallbackDuplicates ==
    /\ \A e \in DOMAIN delivered :
          ~CarriesPaymentId(e) => Cardinality(FallbackRecords(e)) = delivered[e]
    /\ LeaderboardReturned =>
          \A i \in 1..Len(res.body) :
             LET his == {e \in DOMAIN delivered : DonorOf(e) = res.body[i].name}
             IN  res.body[i].score * Scale = SumDelivered(his)

\* C17 witness: an event without paymentId was stored twice and the
\* leaderboard reports its donor with twice the amount
C17_Witness ==
    /\ LeaderboardReturned
    /\ \E e \in DOMAIN delivered :
          /\ ~CarriesPaymentId(e)
          /\ delivered[e] = 2
          /\ Cardinality(FallbackRecords(e)) = 2
          /\ \E i \in 1..Len(res.body) :
                res.body[i].score * Scale = 2 * e.amount_total

\* the keys whose ledger record a step creates or changes
Written == {k \in DOMAIN payments' : k \notin DOMAIN payments \/ payments'[k] # payments[k]}

\* C18: a step changes the payments ledger only when it handles a validly
\* signed checkout.session.completed delivery, and then it creates or
\* overwrites the one record at the delivery's payment id and leaves every
\* other record as it was; a validly signed event of another type is
\* answered 200 and changes nothing; POST /create-checkout-session,
\* GET /payments/:id, GET /leaderboard and GET /stats leave the ledger
\* unchanged, and the leaderboard cache is written by GET /leaderboard only.
C18_LedgerFrame ==
    [][ /\ payments' # payments =>
              /\ IsCompletedDelivery(req')
              /\ DOMAIN payments \subseteq DOMAIN payments'
              /\ Cardinality(Written) = 1
              /\ \A k \in Written : payments'[k].id = k
              /\ CarriesPaymentId(req'.body) =>
                    Written = {req'.body.metadata.paymentId}
        /\ ( /\ req'.route = "POST /webhook"
             /\ req'.sigValid
             /\ req'.body.type # "checkout.session.completed" )
           => (res'.status = 200 /\ payments' = payments)
        /\ req'.route \in {"POST /create-checkout-session", "GET /payments/:id",
                           "GET /leaderboard", "GET /stats"}
           => payments' = payments
        /\ leaderboard' # leaderboard => req'.route = "GET /leaderboard" ]_vars

\* C18 witness: with two records stored and the cache written, a validly
\* signed event of another type was acknowledged
C18_Witness ==
    /\ req.route = "POST /webhook"
    /\ req.sigValid
    /\ req.body.type = "payment_intent.succeeded"
    /\ res.status = 200
    /\ Cardinality(DOMAIN payments) = 2
    /\ redelivered
    /\ leaderboard # <<>>

\* C19: in the earlier variant, a returned leaderboard reports every donor
\* whose payment was stored, with score the sum of the amounts of that
\* donor's payments (each event counted once), in descending numeric order.
C19_EarlierScoresAreSums ==
    (req.route = "GET /leaderboard" /\ res.status = 200) =>
        /\ \A n \in {DonorOf(e) : e \in DOMAIN delivered} :
              \E i \in 1..Len(res.body) :
                 /\ res.body[i].name = n
                 /\ res.body[i].score * Scale =
                       SumAmounts({e \in DOMAIN delivered : DonorOf(e) = n})
        /\ \A i, j \in 1..Len(res.body) :
              i < j => res.body[i].score >= res.body[j].score
====
